---- MODULE Spec2Model ----
(***************************************************************************)
(* Configuration resolution and migration of src/src/Configurations.ts.   *)
(*                                                                         *)
(* The scoped setting store (vscode.WorkspaceConfiguration) is external:  *)
(* it is modelled as two key-value stores, _old (section                  *)
(* catch2TestExplorer) and _new (section copper), each holding one value  *)
(* per key and scope.  update() is asynchronous: it issues an operation   *)
(* that is later applied to the store or fails.                           *)
(***************************************************************************)
EXTENDS Integers, Sequences, FiniteSets, TLC

VARIABLES
    _old,       \* legacy store: old key -> scope -> value
    _new,       \* new store: new key -> scope -> value
    hist,       \* every update() issued so far, in the order of issue
    pending,    \* indices of hist whose promise has not settled
    logged,     \* indices of hist whose rejection reached _log.exceptionS
    unhandled,  \* indices of hist rejected with no rejection handler attached
    lost,       \* indices of hist that were in flight when the process stopped
    prev,       \* the record of the call before the last one
    last,       \* the record of the last finished call of a resolver method
    crashes,    \* number of process stops so far
    ge,         \* the getExecutables call in progress
    start,      \* the two stores as they were initially
    env,        \* what is outside the two stores: launch.json, the installed
                \* extensions, the platform
    consent     \* the consent prompts: how many are open, how many were
                \* shown, the last answer given

vars == <<_old, _new, hist, pending, logged, unhandled, lost, prev, last, crashes, ge,
          start, env, consent>>

(***************************************************************************)
(* Bounds of the model.                                                    *)
(***************************************************************************)
MaxFailures == 1
MaxCrashes == 1
MaxOverlap == 0
MaxLen == 2
MaxPrompts == 2
MaxOps == 8

(***************************************************************************)
(* JavaScript values.  Every value is a record of the same shape so that  *)
(* values of different types can be compared:                              *)
(*   t  the type ("undefined", "null", "string", "number", "array",       *)
(*      "object"),                                                         *)
(*   s  the text of a string or number,                                    *)
(*   e  the elements of an array,                                          *)
(*   pk how an object's `pattern` property is set ("none": absent,        *)
(*      "string", "other": present and not a string), its text being s,   *)
(*   x  whether an object has properties besides `pattern`,               *)
(*   plk how an object's `parallelizationLimit` property is set ("none",  *)
(*      "number", "other"),                                                *)
(*   n  the value of a number, or of an object's parallelizationLimit, in *)
(*      thousandths (2500 is 2.5); s is "NaN" for the number NaN,         *)
(*   o  the properties of a debug configuration object.                    *)
(***************************************************************************)
Val(t, s, e) ==
    [t |-> t, s |-> s, e |-> e, pk |-> "none", x |-> FALSE, plk |-> "none", n |-> 0,
     o |-> <<>>]

Undefined == Val("undefined", "", <<>>)

Null == Val("null", "", <<>>)

Str(s) == Val("string", s, <<>>)

\* The number n thousandths.
NumberValue(n) == [Val("number", "", <<>>) EXCEPT !.n = n]

NaN == Val("number", "NaN", <<>>)

\* Number(s) of a string s, for the strings of the model: the number a
\* numeral denotes, 0 for the empty string, NaN for any other text.
NumberOf(s) ==
    CASE s = "" -> NumberValue(0)
      [] s = "0" -> NumberValue(0)
      [] s = "0.5" -> NumberValue(500)
      [] s = "1" -> NumberValue(1000)
      [] s = "2.5" -> NumberValue(2500)
      [] s = "4" -> NumberValue(4000)
      [] s = "5" -> NumberValue(5000)
      [] s = "42" -> NumberValue(42000)
      [] s = "-1" -> NumberValue(-1000)
      [] OTHER -> NaN

\* The number written s in the settings.
Num(s) == NumberOf(s)

Arr(e) == Val("array", "", e)

Obj(pk, s, x) == [Val("object", s, <<>>) EXCEPT !.pk = pk, !.x = x]

\* The object obj with its parallelizationLimit set: to the number written
\* s (plk = "number") or to a value that is not a number.
WithLimit(obj, plk, s) == [obj EXCEPT !.plk = plk, !.n = NumberOf(s).n]

\* A debug configuration object with the properties o.
DebugConfig(o) == [Val("object", "", <<>>) EXCEPT !.o = o]

Scopes == {"Global", "Workspace", "WorkspaceFolder"}

ScopeOrder == <<"Global", "Workspace", "WorkspaceFolder">>

NoValues == [sc \in Scopes |-> Undefined]

\* The value v at scope sc alone.
At(sc, v) == [t \in Scopes |-> IF t = sc THEN v ELSE Undefined]

(***************************************************************************)
(* The migration table (new key -> legacy key).                            *)
(***************************************************************************)
MigrationV1V2NamePairs ==
    [k \in {"test.executables", "test.workingDirectory", "test.randomGeneratorSeed",
            "test.runtimeLimit", "test.parallelExecutionLimit",
            "discovery.gracePeriodForMissing", "discovery.retireDebounceLimit",
            "discovery.runtimeLimit", "discovery.testListCaching",
            "debug.configTemplate", "debug.breakOnFailure", "debug.noThrow",
            "log.logpanel", "log.logfile", "log.logSentry", "log.userId",
            "gtest.treatGmockWarningAs", "gtest.gmockVerbose"} |->
        CASE k = "test.executables" -> "executables"
          [] k = "test.workingDirectory" -> "defaultCwd"
          [] k = "test.randomGeneratorSeed" -> "defaultRngSeed"
          [] k = "test.runtimeLimit" -> "defaultRunningTimeoutSec"
          [] k = "test.parallelExecutionLimit" -> "workerMaxNumber"
          [] k = "discovery.gracePeriodForMissing" -> "defaultWatchTimeoutSec"
          [] k = "discovery.retireDebounceLimit" -> "retireDebounceTimeMilisec"
          [] k = "discovery.runtimeLimit" -> "defaultExecParsingTimeoutSec"
          [] k = "discovery.testListCaching" -> "enableTestListCaching"
          [] k = "debug.configTemplate" -> "debugConfigTemplate"
          [] k = "debug.breakOnFailure" -> "debugBreakOnFailure"
          [] k = "debug.noThrow" -> "defaultNoThrow"
          [] k = "log.logpanel" -> "logpanel"
          [] k = "log.logfile" -> "logfile"
          [] k = "log.logSentry" -> "logSentry"
          [] k = "log.userId" -> "userId"
          [] k = "gtest.treatGmockWarningAs" -> "googletest.treatGmockWarningAs"
          [] k = "gtest.gmockVerbose" -> "googletest.gmockVerbose"]

\* The keys whose stored values the model keeps.
OldKeys == {"executables", "defaultCwd"}

NewKeys == {"test.executable", "test.executables", "test.workingDirectory"}

(***************************************************************************)
(* The store's reads.                                                      *)
(***************************************************************************)
\* inspect(key): the value at each of the three scopes.
Inspect(store, key) == store[key]

\* get(key): the effective value, the most specific scope that is not
\* undefined winning.
Effective(vals) ==
    IF vals["WorkspaceFolder"] # Undefined THEN vals["WorkspaceFolder"]
    ELSE IF vals["Workspace"] # Undefined THEN vals["Workspace"]
    ELSE vals["Global"]

Get(store, key) == Effective(store[key])

_isDefinedConfig(config) ==
    \/ config["Global"] # Undefined
    \/ config["Workspace"] # Undefined
    \/ config["WorkspaceFolder"] # Undefined

(***************************************************************************)
(* update(key, value, target) on a store handle: the operation issued.    *)
(* handled tells whether the caller attached a rejection handler that     *)
(* logs (.then(undefined, e => this._log.exceptionS(e))).                 *)
(***************************************************************************)
Update(cfg, key, val, target, handled, call) ==
    [cfg |-> cfg, key |-> key, val |-> val, target |-> target,
     handled |-> handled, call |-> call]

\* A migration that writes the Workspace value at WorkspaceFolder scope and
\* the WorkspaceFolder value at Workspace scope.
MigrationWritesSwapped(newName, oldVals, call) ==
    << Update("new", newName, oldVals["Global"], "Global", TRUE, call),
       Update("new", newName, oldVals["WorkspaceFolder"], "Workspace", TRUE, call),
       Update("new", newName, oldVals["Workspace"], "WorkspaceFolder", TRUE, call) >>

\* The three writes of the legacy values to the new key, scope by scope.
MigrationWrites(newName, oldVals, call) ==
    << Update("new", newName, oldVals["Global"], "Global", TRUE, call),
       Update("new", newName, oldVals["Workspace"], "Workspace", TRUE, call),
       Update("new", newName, oldVals["WorkspaceFolder"], "WorkspaceFolder", TRUE, call) >>

\* A migration that leaves the legacy key set at WorkspaceFolder scope.
MigrationClearsButFolder(oldName, call) ==
    << Update("old", oldName, Undefined, "Global", TRUE, call),
       Update("old", oldName, Undefined, "Workspace", TRUE, call) >>

\* The three clears of the legacy key.
MigrationClears(oldName, call) ==
    << Update("old", oldName, Undefined, "Global", TRUE, call),
       Update("old", oldName, Undefined, "Workspace", TRUE, call),
       Update("old", oldName, Undefined, "WorkspaceFolder", TRUE, call) >>

\* A migration that clears the legacy key before it writes the new one.
MigrationOpsClearFirst(newName, call) ==
    LET oldName == MigrationV1V2NamePairs[newName]
        oldVals == Inspect(_old, oldName)
    IN  IF _isDefinedConfig(oldVals)
        THEN << Update("old", oldName, Undefined, "Global", TRUE, call),
                Update("old", oldName, Undefined, "Workspace", TRUE, call),
                Update("old", oldName, Undefined, "WorkspaceFolder", TRUE, call),
                Update("new", newName, oldVals["Global"], "Global", TRUE, call),
                Update("new", newName, oldVals["Workspace"], "Workspace", TRUE, call),
                Update("new", newName, oldVals["WorkspaceFolder"], "WorkspaceFolder", TRUE, call) >>
        ELSE <<>>

\* A migration that writes and clears even when the legacy key is undefined.
MigrationOpsAlways(newName, call) ==
    LET oldName == MigrationV1V2NamePairs[newName]
        oldVals == Inspect(_old, oldName)
    IN  MigrationWrites(newName, oldVals, call) \o MigrationClears(oldName, call)

\* The operations _getNewOrOldAndMigrate(newName) issues, in order.
MigrationOps(newName, call) ==
    LET oldName == MigrationV1V2NamePairs[newName]
        oldVals == Inspect(_old, oldName)
    IN  IF _isDefinedConfig(oldVals)
        THEN MigrationWrites(newName, oldVals, call) \o MigrationClears(oldName, call)
        ELSE <<>>

\* A resolution that reads the new key even when the legacy key is defined.
MigrationResultNewKey(newName) == Get(_new, newName)

\* The value _getNewOrOldAndMigrate(newName) returns.
MigrationResult(newName) ==
    LET oldName == MigrationV1V2NamePairs[newName]
        oldVals == Inspect(_old, oldName)
    IN  IF _isDefinedConfig(oldVals)
        THEN Get(_old, oldName)
        ELSE Get(_new, newName)

_getNewOrOldOrDefAndMigrate(val, defaultValue) ==
    IF val # Undefined THEN val ELSE defaultValue

\* Issue the operations ops: they are appended to hist and are pending.
Issue(ops) ==
    /\ hist' = hist \o ops
    /\ pending' = pending \cup (Len(hist) + 1 .. Len(hist) + Len(ops))

\* What is kept of a finished call: the legacy values it inspected, whether
\* it migrated, the value it returned, whether any operation was in flight
\* when it was made, and the indices in hist of the operations it issued.
CallRecord(name, key, oldVals, migrated, ret, res, n) ==
    [name |-> name, key |-> key, oldVals |-> oldVals, migrated |-> migrated,
     ret |-> ret, res |-> res, quiet |-> pending = {}, first |-> Len(hist) + 1,
     n |-> n, epoch |-> crashes]

\* The result of a call that expands nothing.
NoResult ==
    [st |-> "none", err |-> "", list |-> <<>>, defaultCwd |-> Undefined,
     configExecs |-> Undefined, simpleConfig |-> Undefined, resolved |-> Undefined,
     val |-> Undefined]

NoCall ==
    [name |-> "none", key |-> "", oldVals |-> NoValues, migrated |-> FALSE,
     ret |-> Undefined, res |-> NoResult, quiet |-> TRUE, first |-> 1, n |-> 0,
     epoch |-> 0]

(***************************************************************************)
(* Actions.                                                                *)
(***************************************************************************)
\* A caller resolves the simple migratable key newName.
_getNewOrOldAndMigrate(newName) ==
    LET oldName == MigrationV1V2NamePairs[newName]
        oldVals == Inspect(_old, oldName)
        ops == MigrationOps(newName, Len(hist) + 1)
    IN  /\ ge.pc \in {"idle", "done"}
        /\ Cardinality(pending) <= MaxOverlap
        /\ Issue(ops)
        /\ prev' = last
        /\ last' = CallRecord("resolve", newName, oldVals, _isDefinedConfig(oldVals),
                              MigrationResult(newName), NoResult, Len(ops))
        /\ UNCHANGED <<_old, _new, logged, unhandled, lost, crashes, ge, start, env, consent>>

\* A constructor that forces the migration of log.logpanel only.
constructorLogpanelOnly ==
    LET oldVals == Inspect(_old, MigrationV1V2NamePairs["log.logpanel"])
        ops == MigrationOps("log.logpanel", Len(hist) + 1)
    IN  /\ ge.pc \in {"idle", "done"}
        /\ Cardinality(pending) <= MaxOverlap
        /\ Issue(ops)
        /\ prev' = CallRecord("constructor", "log.logpanel", oldVals,
                              _isDefinedConfig(oldVals), MigrationResult("log.logpanel"),
                              NoResult, Len(ops))
        /\ last' = [CallRecord("constructor", "log.logfile",
                               Inspect(_old, MigrationV1V2NamePairs["log.logfile"]),
                               FALSE, Get(_new, "log.logfile"), NoResult, 0)
                        EXCEPT !.first = Len(hist) + Len(ops) + 1]
        /\ UNCHANGED <<_old, _new, logged, unhandled, lost, crashes, ge, start, env, consent>>

\* A Configurations is constructed over the stores, lines 104-110: the two
\* calls of _getNewOrOldAndMigrate run one after the other with no await
\* between them.  prev records the call for log.logpanel and last the call
\* for log.logfile, made with the operations of the first in flight.
constructor ==
    LET oldPanel == Inspect(_old, MigrationV1V2NamePairs["log.logpanel"])
        oldFile == Inspect(_old, MigrationV1V2NamePairs["log.logfile"])
        opsPanel == MigrationOps("log.logpanel", Len(hist) + 1)
        opsFile == MigrationOps("log.logfile", Len(hist) + Len(opsPanel) + 1)
    IN  /\ ge.pc \in {"idle", "done"}
        /\ Cardinality(pending) <= MaxOverlap
        /\ Issue(opsPanel \o opsFile)
        /\ prev' = CallRecord("constructor", "log.logpanel", oldPanel,
                              _isDefinedConfig(oldPanel), MigrationResult("log.logpanel"),
                              NoResult, Len(opsPanel))
        /\ last' = [CallRecord("constructor", "log.logfile", oldFile,
                               _isDefinedConfig(oldFile), MigrationResult("log.logfile"),
                               NoResult, Len(opsFile))
                        EXCEPT !.first = Len(hist) + Len(opsPanel) + 1,
                               !.quiet = (pending = {} /\ opsPanel = <<>>)]
        /\ UNCHANGED <<_old, _new, logged, unhandled, lost, crashes, ge, start, env, consent>>

(***************************************************************************)
(* getExecutables: migration of the legacy `executables` value.            *)
(***************************************************************************)
\* A migrate() that treats an undefined legacy value as null: it writes ''
\* to test.executable at a scope where the legacy key is not defined.
MigratePlanUndefinedAsNull(oldVal) ==
    IF oldVal.t \in {"undefined", "null"}
    THEN [kind |-> "update", simpleVal |-> Str(""), val |-> Undefined]
    ELSE IF oldVal.t = "string"
    THEN [kind |-> "update", simpleVal |-> oldVal, val |-> Undefined]
    ELSE [kind |-> "update", simpleVal |-> Undefined, val |-> oldVal]

\* migrate(oldVal, target), lines 417-441: what is passed to update(), if
\* anything.  kind is "return" (oldVal undefined), "update", "error" (the
\* unhandled config case, logged) or "throw" (reading `pattern` of null).
MigratePlan(oldVal) ==
    LET plan(kind, simpleVal, val) == [kind |-> kind, simpleVal |-> simpleVal, val |-> val]
        \* typeof v === 'string' -> {pattern: v}; typeof v === 'object' -> v
        kept == SelectSeq(oldVal.e, LAMBDA v : v.t \in {"string", "object", "null"})
        newVals == [i \in 1 .. Len(kept) |->
                      IF kept[i].t = "string" THEN Obj("string", kept[i].s, FALSE)
                      ELSE kept[i]]
        \* newVals[0].pattern
        pattern0 == IF newVals[1].pk = "string" THEN Str(newVals[1].s)
                    ELSE IF newVals[1].pk = "other" THEN Num(newVals[1].s)
                    ELSE Undefined
    IN  CASE oldVal = Undefined -> plan("return", Undefined, Undefined)
          [] oldVal.t = "null" -> plan("update", Str(""), Undefined)
          [] oldVal.t = "string" -> plan("update", oldVal, Undefined)
          [] oldVal.t = "array" ->
                IF Len(newVals) = 0 THEN plan("update", Str(""), Undefined)
                ELSE IF Len(newVals) = 1
                     THEN \* Object.keys(newVals).length === 1 holds of every
                          \* array of one element
                          IF newVals[1].t = "null" THEN plan("throw", Undefined, Undefined)
                          ELSE IF pattern0 # Undefined
                               THEN plan("update", pattern0, Undefined)
                               ELSE plan("update", Undefined, Arr(newVals))
                     ELSE plan("update", Undefined, Arr(newVals))
          [] OTHER -> plan("error", Undefined, Undefined)

(***************************************************************************)
(* getExecutables: expansion of test.executables / test.executable.        *)
(***************************************************************************)
DefaultPattern == "{build,Build,BUILD,out,Out,OUT}/**/*{test,Test,TEST}*"

\* An ExecutableConfig: its pattern, whether it carries further fields of
\* an executable object, and its parallelizationLimit (a number).
ExecutableConfig(pattern, x, parallelizationLimit) ==
    [pattern |-> pattern, x |-> x, parallelizationLimit |-> parallelizationLimit]

createExecutableConfigFromPattern(pattern) ==
    ExecutableConfig(pattern, FALSE, NumberValue(1000))

Ok(list) == [st |-> "ok", err |-> "", list |-> list]

Throw(err) == [st |-> "throw", err |-> err, list |-> <<>>]

\* createExecutableConfigFromObj(obj): the config, or the error thrown.
createExecutableConfigFromObj(obj) ==
    IF obj.t = "null" THEN Throw("TypeError")
    ELSE IF obj.t = "object" /\ obj.pk = "string"
         THEN LET parallelizationLimit ==
                      IF obj.plk = "number" THEN NumberValue(obj.n) ELSE NumberValue(1000)
              IN  Ok(<<ExecutableConfig(obj.s, obj.x, parallelizationLimit)>>)
         ELSE Throw("pattern property is required.")

\* The loop over configExecs, lines 568-576.
RECURSIVE ExpandElements(_)
ExpandElements(confs) ==
    IF confs = <<>> THEN Ok(<<>>)
    ELSE LET conf == Head(confs)
             one == IF conf.t = "string"
                    THEN Ok(<<createExecutableConfigFromPattern(conf.s)>>)
                    ELSE createExecutableConfigFromObj(conf)
             rest == ExpandElements(Tail(confs))
         IN  IF one.st = "throw" THEN one
             ELSE IF rest.st = "throw" THEN rest
             ELSE Ok(one.list \o rest.list)

\* An expansion that prefers a string test.executable to test.executables.
ExpandSimpleFirst(configExecs, simpleConfig) ==
    IF simpleConfig.t = "string"
    THEN IF simpleConfig.s = "" THEN Ok(<<>>)
         ELSE Ok(<<createExecutableConfigFromPattern(simpleConfig.s)>>)
    ELSE IF configExecs.t = "array" /\ Len(configExecs.e) > 0
    THEN ExpandElements(configExecs.e)
    ELSE IF simpleConfig = Undefined
    THEN Ok(<<createExecutableConfigFromPattern(DefaultPattern)>>)
    ELSE Throw("`test.executable` couldn't be recognised.")

\* Lines 469-580: the list getExecutables returns for the effective values
\* configExecs of test.executables and simpleConfig of test.executable.
Expand(configExecs, simpleConfig) ==
    IF configExecs = Undefined \/ (configExecs.t = "array" /\ Len(configExecs.e) = 0)
    THEN IF simpleConfig = Undefined
         THEN Ok(<<createExecutableConfigFromPattern(DefaultPattern)>>)
         ELSE IF simpleConfig.t = "string"
              THEN IF simpleConfig.s = "" THEN Ok(<<>>)
                   ELSE Ok(<<createExecutableConfigFromPattern(simpleConfig.s)>>)
              ELSE Throw("`test.executable` couldn't be recognised.")
    ELSE IF configExecs.t = "array" THEN ExpandElements(configExecs.e)
    ELSE Throw("`test.executables` couldn't be recognised")

\* getDefaultCwd() || '${absDirpath}', the workspace folder's path being
\* the default of test.workingDirectory.
GetDefaultCwd ==
    LET dirname == Str("fsPath")
        cwd == _getNewOrOldOrDefAndMigrate(MigrationResult("test.workingDirectory"), dirname)
    IN  IF cwd.t = "null" \/ (cwd.t = "string" /\ cwd.s = "")
        THEN Str("${absDirpath}")
        ELSE cwd

\* An update() that writes test.executable at Global scope whatever the
\* target is.
UpdateSimpleAtGlobal(simpleVal, target, call) ==
    Update("new", "test.executable", simpleVal, "Global", TRUE, call)

\* The three calls of update(simpleVal, val), lines 410-412.
UpdateSimple(simpleVal, target, call) ==
    Update("new", "test.executable", simpleVal, target, TRUE, call)

\* An update() that writes the empty array to test.executables where
\* update(simpleVal, undefined) writes undefined.
UpdateArrayNeverUndefined(val, target, call) ==
    Update("new", "test.executables", IF val = Undefined THEN Arr(<<>>) ELSE val,
           target, TRUE, call)

UpdateArray(val, target, call) ==
    Update("new", "test.executables", val, target, TRUE, call)

UpdateClear(target, call) ==
    Update("old", MigrationV1V2NamePairs["test.executables"], Undefined, target, FALSE, call)

\* The first scope, from index from on, at which migrate() does not return
\* at once (4: none).
RECURSIVE NextScope(_, _)
NextScope(oldVals, from) ==
    IF from > 3 THEN 4
    ELSE IF MigratePlan(oldVals[ScopeOrder[from]]).kind \in {"update", "throw"} THEN from
    ELSE NextScope(oldVals, from + 1)

\* What getExecutables returned or threw, with the values it read at lines
\* 469 and 474.
GeResult(r, cwd, configExecs, simpleConfig) ==
    [st |-> r.st, err |-> r.err, list |-> r.list, defaultCwd |-> cwd,
     configExecs |-> configExecs, simpleConfig |-> simpleConfig, resolved |-> Undefined,
     val |-> Undefined]

GeRecord(oldVals, res, first, quiet, n) ==
    [name |-> "getExecutables", key |-> "test.executables", oldVals |-> oldVals,
     migrated |-> _isDefinedConfig(oldVals), ret |-> Undefined, res |-> res,
     quiet |-> quiet, first |-> first, n |-> n, epoch |-> crashes]

\* getExecutables runs on, having issued pre, from the scope of index from
\* up to its next await or to its end.
GeContinue(oldVals, from, first, quiet, pre) ==
    LET i == NextScope(oldVals, from)
        plan == MigratePlan(oldVals[ScopeOrder[i]])
    IN  IF i <= 3 /\ plan.kind = "update"
        THEN /\ Issue(pre \o <<UpdateSimple(plan.simpleVal, ScopeOrder[i], first)>>)
             /\ ge' = [pc |-> "await1", oldVals |-> oldVals, idx |-> i,
                       wait |-> Len(hist) + Len(pre) + 1, first |-> first,
                       quiet |-> quiet]
             /\ UNCHANGED <<prev, last>>
        ELSE IF i <= 3
        THEN \* migrate() throws: getExecutables is rejected
             /\ Issue(pre)
             /\ ge' = [ge EXCEPT !.pc = "done"]
             /\ prev' = last
             /\ last' = GeRecord(oldVals, GeResult(Throw("TypeError"), Undefined, Undefined, Undefined),
                                 first, quiet, Len(hist) + Len(pre) + 1 - first)
        ELSE LET ops == pre \o MigrationOps("test.workingDirectory",
                                            Len(hist) + Len(pre) + 1)
                 configExecs == Get(_new, "test.executables")
                 simpleConfig == Get(_new, "test.executable")
                 res == Expand(configExecs, simpleConfig)
             IN  /\ Issue(ops)
                 /\ ge' = [ge EXCEPT !.pc = "done"]
                 /\ prev' = last
                 /\ last' = GeRecord(oldVals, GeResult(res, GetDefaultCwd, configExecs, simpleConfig),
                                     first, quiet, Len(hist) + Len(ops) + 1 - first)

\* getExecutables is called: it runs up to its first await, or to its end.
getExecutables ==
    LET oldVals == Inspect(_old, "executables")
    IN  /\ ge.pc \in {"idle", "done"}
        /\ Cardinality(pending) <= MaxOverlap
        /\ IF _isDefinedConfig(oldVals)
           THEN GeContinue(oldVals, 1, Len(hist) + 1, pending = {}, <<>>)
           ELSE GeContinue(NoValues, 4, Len(hist) + 1, pending = {}, <<>>)
        /\ UNCHANGED <<_old, _new, logged, unhandled, lost, crashes, start, env, consent>>

\* The write of test.executable has settled: test.executables is written.
updateNewName ==
    LET target == ScopeOrder[ge.idx]
        plan == MigratePlan(ge.oldVals[target])
    IN  /\ ge.pc = "await1"
        /\ ge.wait \notin pending
        /\ Issue(<<UpdateArray(plan.val, target, ge.first)>>)
        /\ ge' = [ge EXCEPT !.pc = "await2", !.wait = Len(hist) + 1]
        /\ UNCHANGED <<_old, _new, logged, unhandled, lost, prev, last, crashes, start, env, consent>>

\* The write of test.executables has settled: the legacy key is cleared at
\* the scope, and getExecutables runs on.
updateOldName ==
    LET target == ScopeOrder[ge.idx]
    IN  /\ ge.pc = "await2"
        /\ ge.wait \notin pending
        /\ GeContinue(ge.oldVals, ge.idx + 1, ge.first, ge.quiet,
                      <<UpdateClear(target, ge.first)>>)
        /\ UNCHANGED <<_old, _new, logged, unhandled, lost, crashes, start, env, consent>>

\* The store applies the pending operation i.
Apply(i) ==
    LET op == hist[i]
    IN  /\ i \in pending
        /\ pending' = pending \ {i}
        /\ IF op.cfg = "old"
           THEN /\ _old' = [_old EXCEPT ![op.key][op.target] = op.val]
                /\ UNCHANGED _new
           ELSE /\ _new' = [_new EXCEPT ![op.key][op.target] = op.val]
                /\ UNCHANGED _old
        /\ UNCHANGED <<hist, logged, unhandled, lost, prev, last, crashes, ge, start, env, consent>>

\* The pending operation i fails: its promise is rejected.
Reject(i) ==
    LET op == hist[i]
    IN  /\ i \in pending
        /\ Cardinality(logged \cup unhandled) < MaxFailures
        /\ pending' = pending \ {i}
        /\ IF op.handled
           THEN logged' = logged \cup {i} /\ UNCHANGED unhandled
           ELSE unhandled' = unhandled \cup {i} /\ UNCHANGED logged
        /\ UNCHANGED <<_old, _new, hist, lost, prev, last, crashes, ge, start, env, consent>>

\* The process stops: the operations in flight are never applied.  The
\* store keeps what was applied.
Crash ==
    /\ crashes < MaxCrashes
    /\ pending # {}
    /\ crashes' = crashes + 1
    /\ lost' = lost \cup pending
    /\ pending' = {}
    /\ ge' = [ge EXCEPT !.pc = "idle"]
    /\ UNCHANGED <<_old, _new, hist, logged, unhandled, prev, last, start, env, consent>>

(***************************************************************************)
(* The typed accessors: each resolves its key, migrating it if the legacy *)
(* key is defined, and converts the value.                                 *)
(***************************************************************************)
\* The number a value converts to in arithmetic and in Number(v), for the
\* values of the model (an object converts to NaN).
ToNumber(v) ==
    CASE v.t = "number" -> v
      [] v.t = "string" -> NumberOf(v.s)
      [] v.t = "null" -> NumberValue(0)
      [] OTHER -> NaN

\* Math.max(1, v)
MathMaxOne(v) ==
    LET x == ToNumber(v)
    IN  IF x.s = "NaN" THEN NaN
        ELSE IF x.n > 1000 THEN x ELSE NumberValue(1000)

\* v * 1000
TimesThousand(v) ==
    LET x == ToNumber(v)
    IN  IF x.s = "NaN" THEN NaN ELSE NumberValue(x.n * 1000)

\* v > 0
GreaterThanZero(v) ==
    LET x == ToNumber(v)
    IN  x.s # "NaN" /\ x.n > 0

\* What an accessor returns or throws.
Return(v) == [st |-> "ok", err |-> "", val |-> v]

ThrowError(err) == [st |-> "throw", err |-> err, val |-> Undefined]

\* A seed conversion without the test for the empty string.
RandomGeneratorSeedNoEmptyTest(val) ==
    IF val = Str("time") THEN Return(val)
    ELSE LET num == ToNumber(val)
         IN  IF num.s # "NaN" THEN Return(num) ELSE Return(Null)

RandomGeneratorSeed(val) ==
    IF val = Str("time") THEN Return(val)
    ELSE IF val = Str("") THEN Return(Null)
    ELSE LET num == ToNumber(val)
         IN  IF num.s # "NaN" THEN Return(num) ELSE Return(Null)

ParallelExecutionLimit(val) ==
    LET res == MathMaxOne(val)
    IN  IF res.t # "number" THEN Return(NumberValue(1000)) ELSE Return(res)

ExecRunningTimeout(r) ==
    IF r # Null /\ GreaterThanZero(r) THEN Return(TimesThousand(r)) ELSE Return(Null)

ExecParsingTimeout(r) == Return(TimesThousand(r))

\* An assignment in which the properties of a win over those of b.
ObjectAssignFirstWins(a, b) ==
    [f \in (DOMAIN a) \cup (DOMAIN b) |-> IF f \in DOMAIN a THEN a[f] ELSE b[f]]

\* Object.assign({}, a, b): the properties of b over those of a.
ObjectAssign(a, b) ==
    [f \in (DOMAIN a) \cup (DOMAIN b) |-> IF f \in DOMAIN b THEN b[f] ELSE a[f]]

BaseTemplate ==
    [name |-> "${label} (${suiteLabel})", request |-> "launch", type |-> "cppdbg"]

\* The properties put over a launch configuration.
LaunchPlaceholders ==
    [name |-> "${label} (${suiteLabel})", program |-> "${exec}", target |-> "${exec}",
     arguments |-> "${argsStr}", args |-> "${args}", cwd |-> "${cwd}", env |-> "${envObj}"]

\* type.startsWith('cpp') || type.startsWith('lldb') || type.startsWith('gdb'),
\* for the types of the model.
StartsWithCppLldbGdb(type) ==
    type \in {"cppdbg", "cppvsdbg", "lldb", "lldb-mi", "gdb"}

\* The condition of lines 198-204 on a launch configuration c.
IsCppLaunch(c) ==
    /\ "request" \in DOMAIN c
    /\ c.request = "launch"
    /\ "type" \in DOMAIN c
    /\ StartsWithCppLldbGdb(c.type)

\* The template of the first installed debug extension, lines 228-276.
ExtensionTemplate(e) ==
    IF "vadimcn.vscode-lldb" \in e.extensions
    THEN Return(DebugConfig(ObjectAssign(BaseTemplate,
            [type |-> "cppdbg", MIMode |-> "lldb", program |-> "${exec}",
             args |-> "${args}", cwd |-> "${cwd}", env |-> "${envObj}"])))
    ELSE IF "webfreak.debug" \in e.extensions
    THEN LET template == ObjectAssign(BaseTemplate,
                 [type |-> "gdb", target |-> "${exec}", arguments |-> "${argsStr}",
                  cwd |-> "${cwd}", env |-> "${envObj}",
                  valuesFormatting |-> "prettyPrinters"])
         IN  IF e.darwin
             THEN Return(DebugConfig(ObjectAssign(template,
                     [type |-> "lldb-mi",
                      lldbmipath |-> "/Applications/Xcode.app/Contents/Developer/usr/bin/lldb-mi"])))
             ELSE Return(DebugConfig(template))
    ELSE IF "ms-vscode.cpptools" \in e.extensions
    THEN Return(DebugConfig(ObjectAssign(BaseTemplate,
            [type |-> "cppvsdbg", linux |-> "{type:cppdbg,MIMode:gdb}",
             osx |-> "{type:cppdbg,MIMode:lldb}", windows |-> "{type:cppvsdbg}",
             program |-> "${exec}", args |-> "${args}", cwd |-> "${cwd}",
             env |-> "${envObj}"])))
    ELSE ThrowError("For debugging 'copper.debug.configTemplate' should be set: https://github.com/matepek/vscode-catch2-test-adapter#or-user-can-manually-fill-it")

\* Lines 176-277 for the resolved setting templateFromConfig in the
\* environment e.
DebugConfigurationTemplate(templateFromConfig, e) ==
    LET wpLaunchConfigs == e.launch
        found == {i \in 1 .. Len(wpLaunchConfigs) : IsCppLaunch(wpLaunchConfigs[i])}
        first == CHOOSE i \in found : \A j \in found : i <= j
    IN  IF templateFromConfig.t \in {"object", "array"}
        THEN Return(DebugConfig(ObjectAssign(BaseTemplate, templateFromConfig.o)))
        ELSE IF templateFromConfig = Null /\ found # {}
        THEN Return(DebugConfig(ObjectAssign(wpLaunchConfigs[first], LaunchPlaceholders)))
        ELSE ExtensionTemplate(e)

\* The value an accessor resolves for newName.
Resolve(newName, defaultValue) ==
    _getNewOrOldOrDefAndMigrate(MigrationResult(newName), defaultValue)

\* An accessor is called: it resolves newName, issuing the operations of a
\* migration, and returns r, computed from the value resolved.
Accessor(name, newName, defaultValue, r) ==
    LET oldName == MigrationV1V2NamePairs[newName]
        oldVals == Inspect(_old, oldName)
        ops == MigrationOps(newName, Len(hist) + 1)
        val == Resolve(newName, defaultValue)
    IN  /\ ge.pc \in {"idle", "done"}
        /\ Cardinality(pending) <= MaxOverlap
        /\ Issue(ops)
        /\ prev' = last
        /\ last' = CallRecord(name, newName, oldVals, _isDefinedConfig(oldVals),
                              MigrationResult(newName),
                              [NoResult EXCEPT !.st = r.st, !.err = r.err,
                                               !.resolved = val, !.val = r.val],
                              Len(ops))
        /\ UNCHANGED <<_old, _new, logged, unhandled, lost, crashes, ge, start, env, consent>>

getDebugConfigurationTemplate ==
    Accessor("getDebugConfigurationTemplate", "debug.configTemplate", Null,
             DebugConfigurationTemplate(Resolve("debug.configTemplate", Null), env))

getRandomGeneratorSeed ==
    Accessor("getRandomGeneratorSeed", "test.randomGeneratorSeed", Str("time"),
             RandomGeneratorSeed(Resolve("test.randomGeneratorSeed", Str("time"))))

getParallelExecutionLimit ==
    Accessor("getParallelExecutionLimit", "test.parallelExecutionLimit",
             NumberValue(1000),
             ParallelExecutionLimit(Resolve("test.parallelExecutionLimit",
                                            NumberValue(1000))))

getExecRunningTimeout ==
    Accessor("getExecRunningTimeout", "test.runtimeLimit", Null,
             ExecRunningTimeout(Resolve("test.runtimeLimit", Null)))

getExecParsingTimeout ==
    Accessor("getExecParsingTimeout", "discovery.runtimeLimit", NumberValue(5000),
             ExecParsingTimeout(Resolve("discovery.runtimeLimit",
                                        NumberValue(5000))))

(***************************************************************************)
(* askSentryConsent.                                                       *)
(***************************************************************************)
\* The two buttons of the prompt, lines 307 and 317-326.
Options == <<"Sure! I love this extension and happy to help.", "Over my dead body (No)">>

\* The test of line 306: the values of log.logSentry that prompt.
Undecided(logSentry) ==
    logSentry \in {Str("question"), Str("disable"), Str("disable_1"), Str("disable_2")}

\* What the handler of the prompt persists for the answer value, lines
\* 317-325: nothing when the prompt is dismissed.
ConsentOps(value, call) ==
    IF value = Str(Options[1])
    THEN <<Update("new", "log.logSentry", Str("enable"), "Global", TRUE, call)>>
    ELSE IF value = Str(Options[2])
    THEN <<Update("new", "log.logSentry", Str("disable_3"), "Global", TRUE, call)>>
    ELSE <<>>

\* askSentryConsent is called: it resolves log.logSentry, migrating it, and
\* shows the prompt when the value is undecided.
askSentryConsent ==
    LET oldVals == Inspect(_old, MigrationV1V2NamePairs["log.logSentry"])
        ops == MigrationOps("log.logSentry", Len(hist) + 1)
        logSentry == Resolve("log.logSentry", Str("question"))
    IN  /\ ge.pc \in {"idle", "done"}
        /\ Cardinality(pending) <= MaxOverlap
        /\ Undecided(logSentry) => consent.shown < MaxPrompts
        /\ Len(hist) + Len(ops) <= MaxOps
        /\ Issue(ops)
        /\ prev' = last
        /\ last' = CallRecord("askSentryConsent", "log.logSentry", oldVals,
                              _isDefinedConfig(oldVals), MigrationResult("log.logSentry"),
                              [NoResult EXCEPT !.st = "ok", !.resolved = logSentry,
                                               !.val = IF Undecided(logSentry)
                                                       THEN Str("showInformationMessage")
                                                       ELSE Undefined],
                              Len(ops))
        /\ consent' = IF Undecided(logSentry)
                      THEN [consent EXCEPT !.open = @ + 1, !.shown = @ + 1]
                      ELSE consent
        /\ UNCHANGED <<_old, _new, logged, unhandled, lost, crashes, ge, start, env>>

\* The user answers an open prompt with value (a button, or undefined when
\* the prompt is dismissed): the handler of lines 314-327 runs.
showInformationMessageThen(value) ==
    /\ consent.open > 0
    /\ Len(hist) + Len(ConsentOps(value, Len(hist) + 1)) <= MaxOps
    /\ Issue(ConsentOps(value, Len(hist) + 1))
    /\ consent' = [consent EXCEPT !.open = @ - 1, !.answer = value.s]
    /\ UNCHANGED <<_old, _new, logged, unhandled, lost, prev, last, crashes, ge, start, env>>

(***************************************************************************)
(* Specification of the simple migration: one migratable key,             *)
(* test.workingDirectory (legacy defaultCwd), with any legacy values and  *)
(* possibly stale values under the new key.                                *)
(***************************************************************************)
\* The legacy values: the value set at a scope, if any, tells the scope.
ValueAt ==
    [sc \in Scopes |-> CASE sc = "Global" -> Str("vG")
                         [] sc = "Workspace" -> Str("vW")
                         [] sc = "WorkspaceFolder" -> Str("vF")]

SimpleValues ==
    {[sc \in Scopes |-> IF sc \in D THEN ValueAt[sc] ELSE Undefined] : D \in SUBSET Scopes}

\* The new key is unset, or holds a stale value at every scope.
StaleValues == {[sc \in Scopes |-> v] : v \in {Undefined, Str("s")}}

IdleGe == [pc |-> "idle", oldVals |-> NoValues, idx |-> 0, wait |-> 0, first |-> 1,
           quiet |-> TRUE]

\* No consent prompt was shown yet.
NoConsent == [open |-> 0, shown |-> 0, answer |-> "none"]

\* No launch.json, no debug extension installed, a platform other than
\* darwin.
NoEnv == [launch |-> <<>>, extensions |-> {}, darwin |-> FALSE]

\* The state after construction over the stores o (legacy) and n (new) in
\* the environment e.
InitWith(o, n, e) ==
    /\ _old = o
    /\ _new = n
    /\ env = e
    /\ start = [old |-> o, new |-> n]
    /\ consent = NoConsent
    /\ hist = <<>>
    /\ pending = {}
    /\ logged = {}
    /\ unhandled = {}
    /\ lost = {}
    /\ prev = NoCall
    /\ last = NoCall
    /\ crashes = 0
    /\ ge = IdleGe

InitStores(o, n) == InitWith(o, n, NoEnv)

Init ==
    \E o \in SimpleValues, n \in StaleValues :
        InitStores([k \in OldKeys |-> IF k = "defaultCwd" THEN o ELSE NoValues],
                   [k \in NewKeys |-> IF k = "test.workingDirectory" THEN n ELSE NoValues])

Next ==
    \/ _getNewOrOldAndMigrate("test.workingDirectory")
    \/ \E i \in pending : Apply(i)
    \/ \E i \in pending : Reject(i)

Spec == Init /\ [][Next]_vars

\* The same with a process stop, after which the resolver is used again.
NextCrash ==
    \/ _getNewOrOldAndMigrate("test.workingDirectory")
    \/ \E i \in pending : Apply(i)
    \/ Crash

InitCrash ==
    \E o \in SimpleValues :
        InitStores([k \in OldKeys |-> IF k = "defaultCwd" THEN o ELSE NoValues],
                   [k \in NewKeys |-> NoValues])

SpecCrash == InitCrash /\ [][NextCrash]_vars

(***************************************************************************)
(* Specification of getExecutables.  Initially either no legacy value is   *)
(* defined and the new keys hold any values, or the legacy `executables`   *)
(* key is defined.                                                         *)
(***************************************************************************)
SeqsUpTo(S, n) == UNION {[1 .. k -> S] : k \in 0 .. n}

\* Elements of a test.executables array.
Elements ==
    {Str("p"), Str(""), Obj("string", "p", FALSE), Obj("string", "q", TRUE),
     Obj("string", "", FALSE), Obj("none", "", TRUE), Obj("other", "5", FALSE),
     Null, Num("5")}

ExecutablesValues ==
    {Undefined, Null, Str("p"), Obj("string", "p", FALSE)}
        \cup {Arr(e) : e \in SeqsUpTo(Elements, MaxLen)}

ExecutableValues == {Undefined, Str(""), Str("p"), Num("5"), Null}

\* Values of the legacy `executables` key.
LegacyValues ==
    {Undefined, Null, Str("p"), Arr(<<>>), Arr(<<Str("q")>>),
     Arr(<<Obj("string", "q", TRUE)>>), Arr(<<Str("q"), Obj("string", "r", TRUE)>>),
     Obj("string", "p", FALSE)}

InitExpand ==
    \E sc \in Scopes, v1 \in ExecutablesValues, v2 \in ExecutableValues :
        InitStores([k \in OldKeys |-> NoValues],
                   [k \in NewKeys |->
                      IF k = "test.executables" THEN At(sc, v1)
                      ELSE IF k = "test.executable" THEN At(sc, v2)
                      ELSE NoValues])

\* The new keys are unset, or both hold a stale value at every scope.
StaleExecutables(stale) ==
    [k \in NewKeys |->
        IF k = "test.executables" /\ stale THEN [t \in Scopes |-> Arr(<<Str("t")>>)]
        ELSE IF k = "test.executable" /\ stale THEN [t \in Scopes |-> Str("s")]
        ELSE NoValues]

\* The legacy key is defined at one scope.
InitMigrateOne ==
    \E sc \in Scopes, v \in LegacyValues \ {Undefined}, stale \in BOOLEAN :
        InitStores([k \in OldKeys |-> IF k = "executables" THEN At(sc, v) ELSE NoValues],
                   StaleExecutables(stale))

\* The legacy key is defined at two scopes.
InitMigrateTwo ==
    \E sc \in Scopes, sc2 \in Scopes, v \in LegacyValues \ {Undefined} :
        /\ sc2 # sc
        /\ InitStores([k \in OldKeys |->
                         IF k = "executables" THEN [At(sc2, Str("g")) EXCEPT ![sc] = v]
                         ELSE NoValues],
                      StaleExecutables(FALSE))

\* The legacy defaultCwd is defined, with or without a legacy `executables`.
InitMigrateCwd ==
    \E v \in {Undefined, Str("p")}, stale \in BOOLEAN :
        InitStores([k \in OldKeys |->
                      IF k = "executables" THEN At("Global", v)
                      ELSE At("Global", Str("d"))],
                   StaleExecutables(stale))

\* Executable objects with a parallelizationLimit: 0, a negative number, a
\* fraction, 4, and a value that is not a number.
LimitObjects ==
    {WithLimit(Obj("string", "p", TRUE), "number", s) : s \in {"0", "-1", "2.5", "4"}}
        \cup {WithLimit(Obj("string", "p", TRUE), "other", "")}

\* test.executables holds one executable object with a parallelizationLimit.
InitLimit ==
    \E sc \in Scopes, obj \in LimitObjects :
        InitStores([k \in OldKeys |-> NoValues],
                   [k \in NewKeys |->
                      IF k = "test.executables" THEN At(sc, Arr(<<obj>>)) ELSE NoValues])

InitExec == InitExpand \/ InitMigrateOne \/ InitMigrateTwo \/ InitMigrateCwd \/ InitLimit

NextExec ==
    \/ getExecutables
    \/ updateNewName
    \/ updateOldName
    \/ \E i \in pending : Apply(i)
    \/ \E i \in pending : Reject(i)

SpecExec == InitExec /\ [][NextExec]_vars

(***************************************************************************)
(* Specification of the typed accessors.  Initially one of their keys is   *)
(* set, under its new name or under its legacy name.                       *)
(***************************************************************************)
AccessKeys ==
    {"debug.configTemplate", "test.randomGeneratorSeed", "test.parallelExecutionLimit",
     "test.runtimeLimit", "discovery.runtimeLimit"}

AccessOldKeys == {MigrationV1V2NamePairs[k] : k \in AccessKeys}

\* The values a key is set to (Undefined: the key is not set).
AccessValues(k) ==
    CASE k = "debug.configTemplate" ->
            {Undefined, Null, Str("extensionOnly"), DebugConfig(<<>>),
             DebugConfig([type |-> "lldb", custom |-> "c"]),
             DebugConfig([name |-> "mine", request |-> "attach"])}
      [] k = "test.randomGeneratorSeed" ->
            {Undefined, Str("time"), Str(""), Str("42"), Str("abc"), Num("42")}
      [] k = "test.parallelExecutionLimit" ->
            {Undefined, Num("0"), Num("1"), Num("4"), Num("-1"), Num("2.5"), Str("abc"),
             Null}
      [] OTHER ->
            {Undefined, Num("5"), Num("0"), Num("-1"), Num("0.5"), Null}

\* Configurations of launch.json.
LaunchEntries ==
    { [request |-> "launch", type |-> "cppdbg", program |-> "a.out"],
      [request |-> "attach", type |-> "cppdbg"],
      [request |-> "launch", type |-> "node"],
      [request |-> "launch", type |-> "lldb", name |-> "mine"] }

Extensions == {"vadimcn.vscode-lldb", "webfreak.debug", "ms-vscode.cpptools"}

\* The environments: any launch.json and extensions on a platform other
\* than darwin, and any extensions without a launch.json on darwin.
Envs ==
    {[launch |-> l, extensions |-> x, darwin |-> FALSE] :
        l \in SeqsUpTo(LaunchEntries, MaxLen), x \in SUBSET Extensions}
      \cup {[launch |-> <<>>, extensions |-> x, darwin |-> TRUE] : x \in SUBSET Extensions}

\* One key is set at one scope under its new name.
InitAccessOne ==
    \E k \in AccessKeys, sc \in Scopes :
        \E v \in AccessValues(k) :
            InitStores([o \in AccessOldKeys |-> NoValues],
                       [n \in AccessKeys |-> IF n = k THEN At(sc, v) ELSE NoValues])

\* The legacy seed is set at Global scope and at a more specific scope, and
\* the new key holds another value.
InitAccessTwo ==
    \E sc \in Scopes \ {"Global"} :
        InitStores([o \in AccessOldKeys |->
                      IF o = "defaultRngSeed"
                      THEN [At("Global", Str("42")) EXCEPT ![sc] = Str("")]
                      ELSE NoValues],
                   [n \in AccessKeys |->
                      IF n = "test.randomGeneratorSeed"
                      THEN At("WorkspaceFolder", Str("abc"))
                      ELSE NoValues])

\* The debug template is set at Global scope, in any environment.
InitAccessDebug ==
    \E v \in AccessValues("debug.configTemplate"), e \in Envs :
        InitWith([o \in AccessOldKeys |-> NoValues],
                 [n \in AccessKeys |->
                    IF n = "debug.configTemplate" THEN At("Global", v) ELSE NoValues],
                 e)

\* One key is set at Workspace scope under its legacy name.
InitAccessLegacy ==
    \E k \in AccessKeys :
        \E v \in AccessValues(k) \ {Undefined} :
            InitStores([o \in AccessOldKeys |->
                          IF o = MigrationV1V2NamePairs[k] THEN At("Workspace", v)
                          ELSE NoValues],
                       [n \in AccessKeys |-> NoValues])

InitAccess == InitAccessOne \/ InitAccessTwo \/ InitAccessLegacy \/ InitAccessDebug

NextAccess ==
    \/ getDebugConfigurationTemplate
    \/ getRandomGeneratorSeed
    \/ getParallelExecutionLimit
    \/ getExecRunningTimeout
    \/ getExecParsingTimeout
    \/ \E i \in pending : Apply(i)

SpecAccess == InitAccess /\ [][NextAccess]_vars

(***************************************************************************)
(* Specification of the construction.  Before it the legacy logpanel and   *)
(* logfile keys hold any values, the new keys are unset or stale, and the  *)
(* legacy defaultCwd is set.                                               *)
(***************************************************************************)
ConstructOldKeys == {"logpanel", "logfile", "defaultCwd"}

ConstructNewKeys == {"log.logpanel", "log.logfile", "test.workingDirectory"}

\* The stores before a construction: the legacy logpanel is panel, the
\* legacy logfile is file, the new log keys are both n.
ConstructStores(panel, file, n) ==
    InitStores([k \in ConstructOldKeys |->
                  CASE k = "logpanel" -> panel
                    [] k = "logfile" -> file
                    [] OTHER -> At("Global", Str("d"))],
               [k \in ConstructNewKeys |->
                  IF k = "test.workingDirectory" THEN NoValues ELSE n])

\* One of the two legacy keys is set, at any scopes, or none is.
InitConstructOne ==
    \E o \in SimpleValues, n \in StaleValues, panel \in BOOLEAN :
        IF panel THEN ConstructStores(o, NoValues, n)
        ELSE ConstructStores(NoValues, o, n)

\* Both legacy keys are set, at different scopes.
InitConstructBoth ==
    ConstructStores(At("Global", Str("vG")), At("Workspace", Str("vW")), NoValues)

InitConstruct == InitConstructOne \/ InitConstructBoth

NextConstruct ==
    \/ constructor
    \/ \E i \in pending : Apply(i)

SpecConstruct == InitConstruct /\ [][NextConstruct]_vars

(***************************************************************************)
(* Specification of the consent.  Initially log.logSentry is unset or      *)
(* holds one of its values at one scope, or the legacy logSentry is set.   *)
(***************************************************************************)
SentryValues ==
    {Str("question"), Str("disable"), Str("disable_1"), Str("disable_2"),
     Str("disable_3"), Str("enable"), Str("enabled")}

\* The answers to a prompt: one of the two buttons, or undefined.
Answers == {Str(Options[1]), Str(Options[2]), Undefined}

ConsentStores(o, n) ==
    InitStores([k \in {"logSentry"} |-> o], [k \in {"log.logSentry"} |-> n])

\* The new key is unset, or set at one scope.
InitConsentNew ==
    \/ ConsentStores(NoValues, NoValues)
    \/ \E sc \in Scopes, v \in SentryValues : ConsentStores(NoValues, At(sc, v))

\* The legacy key is set at Global scope, the new key being unset or
\* holding a stale value at Global scope.
InitConsentLegacy ==
    \E v \in {Str("question"), Str("enable")}, n \in {Undefined, Str("disable_3")} :
        ConsentStores(At("Global", v), At("Global", n))

InitConsent == InitConsentNew \/ InitConsentLegacy

NextConsent ==
    \/ askSentryConsent
    \/ \E value \in Answers : showInformationMessageThen(value)
    \/ \E i \in pending : Apply(i)
    \/ \E i \in pending : Reject(i)

SpecConsent == InitConsent /\ [][NextConsent]_vars

(***************************************************************************)
(* Properties of the simple migration.                                     *)
(***************************************************************************)
\* The operations a call issued, and those among them on the new store.
OpsOf(r) == r.first .. (r.first + r.n - 1)

WritesOf(r) == {i \in OpsOf(r) : hist[i].cfg = "new"}

\* Operation i was applied to the store.
Applied(i) == i \notin (pending \cup logged \cup unhandled \cup lost)

\* Call r found its legacy key defined, was made with nothing in flight,
\* and every operation it issued has been applied.
Migrated(r) ==
    /\ r.name = "resolve"
    /\ r.migrated
    /\ r.quiet
    /\ \A i \in OpsOf(r) : Applied(i)

\* C1: idempotence of resolve.  When a call of resolve finds the legacy key
\* defined, then once the operations it issued have been applied the legacy
\* key is undefined at all three scopes, and the next call of resolve, made
\* then, returns the value the first call returned.
C1_ResolveIdempotent ==
    /\ Migrated(last) =>
          _old[MigrationV1V2NamePairs[last.key]] = NoValues
    /\ (Migrated(prev) /\ last.name = "resolve" /\ last.key = prev.key /\ last.quiet) =>
          /\ last.oldVals = NoValues
          /\ last.ret = prev.ret

C1_Witness ==
    /\ Migrated(prev)
    /\ last.name = "resolve"
    /\ last.quiet
    /\ prev.oldVals = [ValueAt EXCEPT !["Workspace"] = Undefined]
    /\ start.new["test.workingDirectory"]["Workspace"] = Str("s")
    /\ prev.ret = Str("vF")
    /\ last.ret = Str("vF")

\* C2: scope preservation.  Once the writes issued by a migrating call of
\* resolve have been applied, the new key holds at every scope the value the
\* legacy key held at that scope when resolve was called: undefined where
\* the legacy key was undefined, whatever the new key held there before.
C2_ScopePreserved ==
    ( /\ last.name = "resolve"
      /\ last.migrated
      /\ last.quiet
      /\ \A i \in WritesOf(last) : Applied(i) ) =>
        \A sc \in Scopes : _new[last.key][sc] = last.oldVals[sc]

C2_Witness ==
    /\ last.name = "resolve"
    /\ last.migrated
    /\ last.quiet
    /\ WritesOf(last) # {}
    /\ \A i \in WritesOf(last) : Applied(i)
    /\ last.oldVals = At("WorkspaceFolder", Str("vF"))
    /\ start.new["test.workingDirectory"] = [sc \in Scopes |-> Str("s")]
    /\ _new["test.workingDirectory"]["WorkspaceFolder"] = Str("vF")
    /\ _new["test.workingDirectory"]["Global"] = Undefined

\* C3: a migration neither loses nor duplicates a setting.  Once the six
\* operations of the first migration have settled (applied or failed, in any
\* order), each value the legacy key held at a scope is held at that scope
\* by exactly one of the legacy key and the new key.
C3_NeverLostNorDuplicated ==
    ( /\ last.name = "resolve"
      /\ last.migrated
      /\ prev.name = "none"
      /\ OpsOf(last) \cap pending = {} ) =>
        \A sc \in Scopes :
            last.oldVals[sc] # Undefined =>
                ( (_old[MigrationV1V2NamePairs[last.key]][sc] = last.oldVals[sc])
                  # (_new[last.key][sc] = last.oldVals[sc]) )

\* C4: migration is idempotent under crash and restart.  When the process
\* stopped with a migration in flight and resolve was called again after
\* the restart, then once no operation is in flight the legacy key is
\* undefined at all three scopes and the new key holds at each scope the
\* value the legacy key held there initially.
C4_CrashRestartIdempotent ==
    ( /\ crashes > 0
      /\ last.name = "resolve"
      /\ last.epoch = crashes
      /\ pending = {} ) =>
        /\ _old["defaultCwd"] = NoValues
        /\ _new["test.workingDirectory"] = start.old["defaultCwd"]

(***************************************************************************)
(* Properties of getExecutables.                                           *)
(***************************************************************************)
\* The new key a legacy key migrates to.
NewNameOf(oldName) ==
    CHOOSE k \in DOMAIN MigrationV1V2NamePairs : MigrationV1V2NamePairs[k] = oldName

\* Operation i is a write of key, issued before j by the same call for the
\* same scope.
WriteBefore(i, j, key) ==
    /\ i < j
    /\ hist[i].cfg = "new"
    /\ hist[i].key = key
    /\ hist[i].target = hist[j].target
    /\ hist[i].call = hist[j].call

\* C5: the legacy key is cleared at a scope only after the write of the new
\* key at that scope was issued; in the migration of `executables` only
\* after the writes of test.executable and of test.executables at that scope
\* have both settled.
C5_ClearAfterWrite ==
    \A j \in 1 .. Len(hist) :
        hist[j].cfg = "old" =>
            IF hist[j].key = "executables"
            THEN /\ \E i \in 1 .. Len(hist) :
                       WriteBefore(i, j, "test.executable") /\ i \notin pending
                 /\ \E i \in 1 .. Len(hist) :
                       WriteBefore(i, j, "test.executables") /\ i \notin pending
            ELSE \E i \in 1 .. Len(hist) : WriteBefore(i, j, NewNameOf(hist[j].key))

C5_Witness ==
    /\ \E j \in 1 .. Len(hist) :
          /\ hist[j].cfg = "old"
          /\ hist[j].key = "executables"
          /\ \E i \in logged : WriteBefore(i, j, "test.executable")
    /\ \E j \in 1 .. Len(hist) : hist[j].cfg = "old" /\ hist[j].key = "defaultCwd"

\* C6: every failure of a write or clear issued by a migration is reported
\* to the logger and none is left unhandled.
C6_FailuresLogged == unhandled = {}

ValidElement(v) == v.t = "string" \/ (v.t = "object" /\ v.pk = "string")

\* C8: expansion priority.  With no legacy value defined, a non-empty array
\* test.executables gives one config per element, in order, a string element
\* giving a pattern-only config, whatever test.executable is (an element
\* that yields no config makes the call fail); an undefined or empty
\* test.executables gives the default pattern when test.executable is
\* undefined, the empty list when it is '', its pattern when it is another
\* string, and a failure otherwise; any other test.executables fails.
C8_ExpansionPriority ==
    (last.name = "getExecutables" /\ start.old["executables"] = NoValues) =>
        LET res == last.res
            E == res.configExecs
            S == res.simpleConfig
        IN  /\ E = Get(start.new, "test.executables")
            /\ S = Get(start.new, "test.executable")
            /\ IF E.t = "array" /\ Len(E.e) > 0
               THEN IF \A i \in 1 .. Len(E.e) : ValidElement(E.e[i])
                    THEN /\ res.st = "ok"
                         /\ Len(res.list) = Len(E.e)
                         /\ \A i \in 1 .. Len(E.e) :
                               /\ res.list[i].pattern = E.e[i].s
                               /\ E.e[i].t = "string" => ~res.list[i].x
                    ELSE res.st = "throw"
               ELSE IF E = Undefined \/ E.t = "array"
               THEN CASE S = Undefined ->
                           /\ res.st = "ok"
                           /\ Len(res.list) = 1
                           /\ res.list[1].pattern = "{build,Build,BUILD,out,Out,OUT}/**/*{test,Test,TEST}*"
                           /\ ~res.list[1].x
                      [] S.t = "string" /\ S.s = "" -> res.st = "ok" /\ res.list = <<>>
                      [] S.t = "string" /\ S.s # "" ->
                           /\ res.st = "ok"
                           /\ Len(res.list) = 1
                           /\ res.list[1].pattern = S.s
                           /\ ~res.list[1].x
                      [] OTHER -> res.st = "throw"
               ELSE res.st = "throw"

C8_Witness ==
    /\ last.name = "getExecutables"
    /\ start.old["executables"] = NoValues
    /\ last.res.configExecs = Arr(<<Str("p"), Obj("string", "q", TRUE)>>)
    /\ last.res.simpleConfig = Num("5")
    /\ last.res.st = "ok"
    /\ Len(last.res.list) = 2

\* C9: every config getExecutables returns has a non-empty pattern.
C9_PatternNonEmpty ==
    (last.name = "getExecutables" /\ last.res.st = "ok") =>
        \A i \in 1 .. Len(last.res.list) : last.res.list[i].pattern # ""

\* An object element without a string `pattern`.
LacksPattern(v) == v.t = "object" /\ v.pk # "string"

\* C10 as stated: an object element of test.executables without a string
\* `pattern` makes getExecutables throw "pattern property is required",
\* whatever the other elements are.
C10_PatternRequiredThrown ==
    LET E == last.res.configExecs
    IN  (last.name = "getExecutables" /\ E.t = "array"
          /\ \E i \in 1 .. Len(E.e) : LacksPattern(E.e[i])) =>
            /\ last.res.st = "throw"
            /\ last.res.err = "pattern property is required."

\* C10 amended: such an element makes getExecutables throw and return no
\* list, whatever its position and the other elements; the error is
\* "pattern property is required" unless a null element comes before every
\* such element, the read of a property of null throwing a TypeError first.
C10_MissingPatternThrows ==
    LET E == last.res.configExecs
    IN  (last.name = "getExecutables" /\ E.t = "array"
          /\ \E i \in 1 .. Len(E.e) : LacksPattern(E.e[i])) =>
            /\ last.res.st = "throw"
            /\ last.res.list = <<>>
            /\ (\A j \in 1 .. Len(E.e) :
                    E.e[j].t = "null" => \E i \in 1 .. (j - 1) : LacksPattern(E.e[i]))
                 => last.res.err = "pattern property is required."
            /\ (\E j \in 1 .. Len(E.e) :
                    /\ E.e[j].t = "null"
                    /\ \A i \in 1 .. (j - 1) : ValidElement(E.e[i]))
                 => last.res.err = "TypeError"

C10_Witness ==
    /\ last.name = "getExecutables"
    /\ last.res.configExecs = Arr(<<Str("p"), Obj("none", "", TRUE)>>)
    /\ last.res.st = "throw"
    /\ last.res.err = "pattern property is required."

(***************************************************************************)
(* Properties of the migration of the legacy `executables` key.            *)
(***************************************************************************)
\* The elements of a legacy array after normalisation: a string element s
\* becomes {pattern: s}, an object element is kept.
NormalizedArray(elems) ==
    [i \in 1 .. Len(elems) |->
        IF elems[i].t = "string" THEN Obj("string", elems[i].s, FALSE) ELSE elems[i]]

\* The lone object of a normalised array holds `pattern` and nothing else.
OnlyPattern(N) == Len(N) = 1 /\ N[1].pk = "string" /\ ~N[1].x

\* getExecutables returned with nothing in flight before it, and every
\* operation it issued has been applied.
GeApplied ==
    /\ last.name = "getExecutables"
    /\ last.quiet
    /\ \A i \in OpsOf(last) : Applied(i)

\* C11: migration of a legacy array at a scope.  With N the normalised
\* array: an empty N writes '' to test.executable; an N of one object that
\* holds only `pattern` writes that pattern to test.executable; every other
\* N is written whole to test.executables, test.executable being written
\* undefined.
C11_ArrayMigrationKeepsFields ==
    \A i \in 1 .. Len(hist) :
        LET L == start.old["executables"][hist[i].target]
            N == NormalizedArray(L.e)
        IN  (hist[i].cfg = "new" /\ L.t = "array") =>
              /\ hist[i].key = "test.executable" =>
                    hist[i].val = IF Len(N) = 0 THEN Str("")
                                  ELSE IF OnlyPattern(N) THEN Str(N[1].s)
                                  ELSE Undefined
              /\ hist[i].key = "test.executables" =>
                    hist[i].val = IF Len(N) = 0 \/ OnlyPattern(N) THEN Undefined
                                  ELSE Arr(N)

\* C12: legacy `executables` null at one scope S, nothing else set.  Once
\* the operations of getExecutables have been applied, test.executable is ''
\* at S, test.executables is undefined at S, the legacy key is undefined at
\* all three scopes, and getExecutables returned the empty list.
C12_NullMeansDisabled ==
    \A S \in Scopes :
        ( /\ GeApplied
          /\ last.oldVals = At(S, Null)
          /\ start.old["executables"] = At(S, Null)
          /\ start.old["defaultCwd"] = NoValues
          /\ start.new = [k \in NewKeys |-> NoValues] ) =>
            /\ _new["test.executable"][S] = Str("")
            /\ _new["test.executables"][S] = Undefined
            /\ _old["executables"] = NoValues
            /\ last.res.st = "ok"
            /\ last.res.list = <<>>

C12_Witness ==
    /\ GeApplied
    /\ last.oldVals = At("Workspace", Null)
    /\ start.old["executables"] = At("Workspace", Null)
    /\ start.new = [k \in NewKeys |-> NoValues]
    /\ OpsOf(last) # {}
    /\ _new["test.executable"] = At("Workspace", Str(""))
    /\ _old["executables"] = NoValues
    /\ last.res.list = <<>>

\* A legal legacy shape of `executables`: null, a string, an array of
\* strings and executable objects, or a single executable object.
LegalLegacyShape(v) ==
    \/ v.t \in {"null", "string", "object"}
    \/ v.t = "array" /\ \A i \in 1 .. Len(v.e) : v.e[i].t \in {"string", "object"}

\* C20: every legal legacy shape is migrated and cleared.  Once the
\* operations of getExecutables have been applied the legacy key is
\* undefined at every scope at which it held a legal shape.
C20_LegacyShapesCleared ==
    GeApplied =>
        \A sc \in Scopes :
            LegalLegacyShape(last.oldVals[sc]) => _old["executables"][sc] = Undefined

(***************************************************************************)
(* Properties of the fields of an ExecutableConfig.                        *)
(***************************************************************************)
\* The number v is an integer and at least 1.
IntegerAtLeastOne(v) ==
    /\ v.t = "number"
    /\ v.s # "NaN"
    /\ v.n >= 1000
    /\ v.n % 1000 = 0

\* C15: every config getExecutables returns has a parallelizationLimit that
\* is an integer and at least 1.
C15_ParallelizationLimitAtLeastOne ==
    (last.name = "getExecutables" /\ last.res.st = "ok") =>
        \A i \in 1 .. Len(last.res.list) :
            IntegerAtLeastOne(last.res.list[i].parallelizationLimit)

(***************************************************************************)
(* Properties of the typed accessors.                                      *)
(***************************************************************************)
\* C13: getParallelExecutionLimit returns a number that is at least 1: 1
\* for a value below 1, n for a value n >= 1, and 1 for a value that is
\* not numeric.
C13_ParallelExecutionLimitAtLeastOne ==
    last.name = "getParallelExecutionLimit" =>
        LET raw == last.res.resolved
            v == last.res.val
        IN  /\ last.res.st = "ok"
            /\ v.t = "number"
            /\ v.s # "NaN"
            /\ v.n >= 1000
            /\ (raw.t = "number" /\ raw.n < 1000) => v.n = 1000
            /\ (raw.t = "number" /\ raw.n >= 1000) => v.n = raw.n
            /\ raw.t = "string" => v.n = 1000

\* C14: a runtime limit of s > 0 seconds is returned as s * 1000
\* milliseconds; a limit of 0, a negative limit and null are returned as
\* null, by getExecRunningTimeout and by getExecParsingTimeout.
C14_RuntimeLimitConversion ==
    last.name \in {"getExecRunningTimeout", "getExecParsingTimeout"} =>
        LET raw == last.res.resolved
            v == last.res.val
        IN  /\ (raw.t = "number" /\ raw.n > 0) =>
                  v.t = "number" /\ v.s # "NaN" /\ v.n = raw.n * 1000
            /\ ((raw.t = "number" /\ raw.n <= 0) \/ raw = Null) => v = Null

\* The first launch configuration whose request is 'launch' and whose type
\* starts with cpp, lldb or gdb (0: none).
FirstCppLaunch(L) ==
    LET ok(i) == /\ "request" \in DOMAIN L[i]
                 /\ L[i].request = "launch"
                 /\ "type" \in DOMAIN L[i]
                 /\ L[i].type \in {"cppdbg", "cppvsdbg", "lldb", "lldb-mi", "gdb"}
    IN  IF \E i \in 1 .. Len(L) : ok(i)
        THEN CHOOSE i \in 1 .. Len(L) : ok(i) /\ \A j \in 1 .. (i - 1) : ~ok(j)
        ELSE 0

\* C16: the debug template.  (1) An object setting: its properties over
\* name, request 'launch' and type 'cppdbg'.  (2) Else, for a null (unset)
\* setting only, the first launch configuration of request 'launch' and a
\* cpp, lldb or gdb type, the placeholders over it.  (3) Else the template
\* of the first installed extension among vadimcn.vscode-lldb,
\* webfreak.debug, ms-vscode.cpptools.  A failure exactly when none applies.
C16_DebugTemplatePriority ==
    last.name = "getDebugConfigurationTemplate" =>
        LET T == last.res.resolved
            r == last.res
            L == env.launch
            i == FirstCppLaunch(L)
            placeholders == {"name", "program", "target", "arguments", "args", "cwd", "env"}
        IN  IF T.t = "object"
            THEN /\ r.st = "ok"
                 /\ DOMAIN r.val.o = DOMAIN T.o \cup {"name", "request", "type"}
                 /\ \A f \in DOMAIN T.o : r.val.o[f] = T.o[f]
                 /\ "name" \notin DOMAIN T.o => r.val.o.name = "${label} (${suiteLabel})"
                 /\ "request" \notin DOMAIN T.o => r.val.o.request = "launch"
                 /\ "type" \notin DOMAIN T.o => r.val.o.type = "cppdbg"
            ELSE IF T = Null /\ i > 0
            THEN /\ r.st = "ok"
                 /\ DOMAIN r.val.o = DOMAIN L[i] \cup placeholders
                 /\ \A f \in DOMAIN L[i] \ placeholders : r.val.o[f] = L[i][f]
                 /\ r.val.o.name = "${label} (${suiteLabel})"
                 /\ r.val.o.program = "${exec}"
                 /\ r.val.o.target = "${exec}"
                 /\ r.val.o.arguments = "${argsStr}"
                 /\ r.val.o.args = "${args}"
                 /\ r.val.o.cwd = "${cwd}"
                 /\ r.val.o.env = "${envObj}"
            ELSE IF "vadimcn.vscode-lldb" \in env.extensions
            THEN r.st = "ok" /\ r.val.o.type = "cppdbg" /\ r.val.o.MIMode = "lldb"
            ELSE IF "webfreak.debug" \in env.extensions
            THEN /\ r.st = "ok"
                 /\ r.val.o.type = IF env.darwin THEN "lldb-mi" ELSE "gdb"
                 /\ r.val.o.valuesFormatting = "prettyPrinters"
            ELSE IF "ms-vscode.cpptools" \in env.extensions
            THEN r.st = "ok" /\ r.val.o.type = "cppvsdbg" /\ "linux" \in DOMAIN r.val.o
            ELSE r.st = "throw"

C16_Witness ==
    /\ last.name = "getDebugConfigurationTemplate"
    /\ last.res.resolved = Null
    /\ env.launch = << [request |-> "launch", type |-> "node"],
                       [request |-> "launch", type |-> "lldb", name |-> "mine"] >>
    /\ env.extensions = {"ms-vscode.cpptools"}
    /\ last.res.st = "ok"
    /\ last.res.val.o.type = "lldb"
    /\ last.res.val.o.name = "${label} (${suiteLabel})"

\* C17: getRandomGeneratorSeed returns 'time' for 'time' and for an unset
\* setting, null for the empty string, the number for a string that parses
\* as a number, and null for any other string.
C17_RandomGeneratorSeed ==
    last.name = "getRandomGeneratorSeed" =>
        LET raw == last.ret
            v == last.res.val
        IN  /\ last.res.st = "ok"
            /\ raw = Undefined => v = Str("time")
            /\ raw = Str("time") => v = Str("time")
            /\ raw = Str("") => v = Null
            /\ raw = Str("42") => (v.t = "number" /\ v.s # "NaN" /\ v.n = 42000)
            /\ raw = Str("abc") => v = Null
            /\ (raw.t = "string" /\ raw.s \notin {"time", ""}) =>
                  \/ v = Null
                  \/ v.t = "number" /\ v.s # "NaN"

C17_Witness ==
    /\ last.name = "getRandomGeneratorSeed"
    /\ last.ret = Str("42")
    /\ last.res.val = NumberValue(42000)
    /\ prev.name = "getRandomGeneratorSeed"
    /\ prev.migrated
    /\ prev.res.val = NumberValue(42000)

\* The most specific scope of vals that is not undefined.
MostSpecific(vals) ==
    CASE vals["WorkspaceFolder"] # Undefined -> vals["WorkspaceFolder"]
      [] vals["Workspace"] # Undefined -> vals["Workspace"]
      [] OTHER -> vals["Global"]

\* The default an accessor passes to _getNewOrOldOrDefAndMigrate.
DefaultOf(name) ==
    CASE name = "getRandomGeneratorSeed" -> Str("time")
      [] name = "getParallelExecutionLimit" -> NumberValue(1000)
      [] name = "getExecParsingTimeout" -> NumberValue(5000)
      [] OTHER -> Null

\* C19: when the legacy key is defined at a scope, resolve returns the
\* effective legacy value, the most specific defined scope winning, whatever
\* the new key holds; resolveOrDefault returns the default exactly when
\* resolve returns undefined, and the resolved value otherwise.
C19_ReturnsEffectiveLegacyValue ==
    last.name # "none" =>
        /\ last.migrated =>
              /\ last.ret = MostSpecific(last.oldVals)
              /\ last.ret # Undefined
        /\ last.ret = Undefined => last.res.resolved = DefaultOf(last.name)
        /\ last.ret # Undefined => last.res.resolved = last.ret

C19_Witness ==
    /\ last.name = "getRandomGeneratorSeed"
    /\ last.migrated
    /\ last.oldVals["Global"] = Str("42")
    /\ start.new["test.randomGeneratorSeed"]["WorkspaceFolder"] = Str("abc")
    /\ last.ret = Str("")
    /\ last.res.resolved = Str("")
    /\ prev.name = "getExecRunningTimeout"
    /\ prev.ret = Undefined
    /\ prev.res.resolved = Null

\* A call of resolve that finds the legacy key undefined at all three scopes.
ResolveStepLegacyUndefined ==
    /\ <<prev, last>>' # <<prev, last>>
    /\ last'.name = "resolve"
    /\ ~_isDefinedConfig(_old[MigrationV1V2NamePairs[last'.key]])

\* C18: when the legacy key is undefined at all three scopes, resolve issues
\* no write and no clear, leaves both stores unchanged and returns the
\* effective value of the new key.
C18_ResolveIsNoOpAfterMigration ==
    [][ResolveStepLegacyUndefined =>
          /\ hist' = hist
          /\ pending' = pending
          /\ _old' = _old
          /\ _new' = _new
          /\ last'.n = 0
          /\ last'.ret = MostSpecific(_new[last'.key])]_vars

C18_Witness ==
    /\ Migrated(prev)
    /\ last.name = "resolve"
    /\ ~last.migrated
    /\ last.n = 0
    /\ last.ret = Str("vF")
    /\ _old["defaultCwd"] = NoValues

(***************************************************************************)
(* Properties of the two new keys of the legacy `executables` key.         *)
(***************************************************************************)
\* The writes of call r to the new key at scope sc.
WritesAt(r, key, sc) ==
    {i \in WritesOf(r) : hist[i].key = key /\ hist[i].target = sc}

\* Call r of getExecutables migrated the legacy value at scope sc, and its
\* writes at sc have been applied.
MigratedAt(r, sc) ==
    /\ r.name = "getExecutables"
    /\ MigratePlan(r.oldVals[sc]).kind = "update"
    /\ WritesAt(r, "test.executable", sc) # {}
    /\ WritesAt(r, "test.executables", sc) # {}
    /\ \A i \in WritesAt(r, "test.executable", sc) \cup WritesAt(r, "test.executables", sc) :
          Applied(i)

\* C23: the two new keys are mutually exclusive per scope.  At a scope where
\* getExecutables migrated the legacy `executables` value, once its writes
\* are applied at most one of test.executable and test.executables is
\* defined, one of the two having been written as undefined; at a scope
\* where the legacy value was undefined no operation is issued on either
\* new key and both stay as stored.
C23_NewKeysMutuallyExclusive ==
    \A sc \in Scopes :
        /\ MigratedAt(last, sc) =>
              /\ _new["test.executable"][sc] = Undefined
                    \/ _new["test.executables"][sc] = Undefined
              /\ \E i \in WritesAt(last, "test.executable", sc) \cup
                           WritesAt(last, "test.executables", sc) :
                    hist[i].val = Undefined
        /\ start.old["executables"][sc] = Undefined =>
              /\ \A i \in 1 .. Len(hist) :
                    hist[i].key \in {"test.executable", "test.executables"} =>
                        hist[i].target # sc
              /\ _new["test.executable"][sc] = start.new["test.executable"][sc]
              /\ _new["test.executables"][sc] = start.new["test.executables"][sc]

\* A legacy array of two elements over stale values of both new keys at
\* Workspace: test.executables is written, test.executable is undefined
\* there, and both keep their stale value at Global.
C23_Witness ==
    /\ start.old["executables"] = At("Workspace", Arr(<<Str("q"), Obj("string", "r", TRUE)>>))
    /\ start.new["test.executable"]["Workspace"] = Str("s")
    /\ MigratedAt(last, "Workspace")
    /\ _new["test.executable"]["Workspace"] = Undefined
    /\ _new["test.executables"]["Workspace"] # Undefined
    /\ _new["test.executable"]["Global"] = Str("s")
    /\ _new["test.executables"]["Global"] = Arr(<<Str("t")>>)

\* The list of patterns a legal legacy value of `executables` denotes: none
\* for null (disabled), the string, the pattern of a single object, the
\* patterns of the elements of an array.
LegacyPatterns(v) ==
    CASE v.t = "null" -> <<>>
      [] v.t = "string" -> <<v.s>>
      [] v.t = "object" -> <<v.s>>
      [] v.t = "array" -> [i \in 1 .. Len(v.e) |-> v.e[i].s]
      [] OTHER -> <<>>

\* The patterns of the list getExecutables returned.
PatternsOf(list) == [i \in 1 .. Len(list) |-> list[i].pattern]

\* C24: the migration preserves the effective list.  With the new keys
\* unset and legal legacy values of `executables` at the three scopes, the
\* patterns of the list getExecutables returns, its operations applied, are
\* those denoted by the effective legacy value, the most specific defined
\* scope winning.
C24_EffectiveListPreserved ==
    ( /\ GeApplied
      /\ last.migrated
      /\ last.oldVals = start.old["executables"]
      /\ start.new["test.executable"] = NoValues
      /\ start.new["test.executables"] = NoValues
      /\ \A sc \in Scopes :
            last.oldVals[sc] = Undefined \/ LegalLegacyShape(last.oldVals[sc]) ) =>
        /\ last.res.st = "ok"
        /\ PatternsOf(last.res.list) = LegacyPatterns(Effective(last.oldVals))

(***************************************************************************)
(* Properties of the construction.                                         *)
(***************************************************************************)
\* Call r of the constructor found its legacy key defined and every
\* operation it issued has been applied.
ConstructMigrated(r) ==
    /\ r.name = "constructor"
    /\ r.migrated
    /\ \A i \in OpsOf(r) : Applied(i)

\* The new key of call r holds the legacy values r found, scope by scope,
\* and the legacy key is undefined at all three scopes.
ConstructMoved(r) ==
    /\ _new[r.key] = r.oldVals
    /\ _old[MigrationV1V2NamePairs[r.key]] = NoValues

\* C21: construction migrates log.logpanel and log.logfile.  For a
\* construction made with nothing in flight, a legacy logpanel or logfile
\* key defined at some scope is moved once the operations issued for it are
\* applied: the new key holds the legacy values scope by scope and the
\* legacy key is undefined at all scopes.  The construction issues
\* operations on these four keys only, and the other keys stay as stored.
C21_ConstructionMigratesLogKeys ==
    (last.name = "constructor" /\ prev.quiet) =>
        /\ ConstructMigrated(prev) => ConstructMoved(prev)
        /\ ConstructMigrated(last) => ConstructMoved(last)
        /\ prev.key = "log.logpanel" /\ last.key = "log.logfile"
        /\ prev.migrated = _isDefinedConfig(prev.oldVals)
        /\ last.migrated = _isDefinedConfig(last.oldVals)
        /\ \A i \in 1 .. Len(hist) :
              \/ hist[i].cfg = "new" /\ hist[i].key \in {"log.logpanel", "log.logfile"}
              \/ hist[i].cfg = "old" /\ hist[i].key \in {"logpanel", "logfile"}
        /\ _old["defaultCwd"] = start.old["defaultCwd"]
        /\ _new["test.workingDirectory"] = start.new["test.workingDirectory"]

\* Both legacy keys were set, at different scopes, and both are moved.
C21_Witness ==
    /\ start.old["logpanel"] = At("Global", Str("vG"))
    /\ start.old["logfile"] = At("Workspace", Str("vW"))
    /\ last.name = "constructor"
    /\ prev.quiet
    /\ ConstructMigrated(prev)
    /\ ConstructMigrated(last)
    /\ _new["log.logpanel"] = At("Global", Str("vG"))
    /\ _new["log.logfile"] = At("Workspace", Str("vW"))
    /\ _old["logpanel"] = NoValues
    /\ _old["logfile"] = NoValues
    /\ _old["defaultCwd"] = At("Global", Str("d"))

(***************************************************************************)
(* Properties of the consent.                                              *)
(***************************************************************************)
\* The call r of askSentryConsent showed the prompt.
Prompted(r) == r.name = "askSentryConsent" /\ r.res.val # Undefined

\* A decided value of log.logSentry.
Decided(v) == v \in {Str("enable"), Str("disable_3")}

\* askSentryConsent prompts exactly when the value resolved, 'question'
\* when neither key is set, is question, disable, disable_1 or disable_2.
PromptsWhenUndecided ==
    last.name = "askSentryConsent" =>
        /\ last.res.resolved = IF last.ret = Undefined THEN Str("question") ELSE last.ret
        /\ Prompted(last) <=>
              last.res.resolved.s \in {"question", "disable", "disable_1", "disable_2"}

\* Once a call of askSentryConsent resolved 'enable' or 'disable_3', the
\* next call does not prompt and resolves one of the two again.
DecidedStays ==
    (prev.name = "askSentryConsent" /\ last.name = "askSentryConsent"
        /\ Decided(prev.res.resolved)) =>
        ~Prompted(last) /\ Decided(last.res.resolved)

\* An answer to the prompt: accepting issues the write of 'enable' to
\* log.logSentry at Global scope, declining the write of 'disable_3', and
\* dismissing issues nothing.
AnswerPersisted ==
    consent'.open < consent.open =>
        LET written(v) ==
                /\ Len(hist') = Len(hist) + 1
                /\ SubSeq(hist', 1, Len(hist)) = hist
                /\ hist'[Len(hist')].cfg = "new"
                /\ hist'[Len(hist')].key = "log.logSentry"
                /\ hist'[Len(hist')].target = "Global"
                /\ hist'[Len(hist')].val = Str(v)
        IN  CASE consent'.answer = "Sure! I love this extension and happy to help." ->
                    written("enable")
              [] consent'.answer = "Over my dead body (No)" -> written("disable_3")
              [] OTHER -> hist' = hist

\* C22: the consent protocol.  askSentryConsent prompts exactly when the
\* resolved log.logSentry is question (the default), disable, disable_1 or
\* disable_2; accepting persists 'enable' and declining 'disable_3' at
\* Global scope, dismissing persists nothing; once 'enable' or 'disable_3'
\* is the value resolved, no later call prompts.
C22_SentryConsentProtocol ==
    [](PromptsWhenUndecided /\ DecidedStays) /\ [][AnswerPersisted]_vars

====
